---- MODULE Spec2Model ----
(***************************************************************************)
(* Wallet / withdrawal accounting of the kredinou server.                  *)
(*                                                                         *)
(* The database collections (loans, wallets, withdrawals, users) are the   *)
(* state.  Spec runs every request handler as one atomic action (requests  *)
(* served one after the other); SpecC runs make_withdrawal as the sequence *)
(* of database operations it performs, so that two requests interleave.    *)
(*                                                                         *)
(* Amounts are whole numbers, in hundreds of HTG (a loan of 500 is 5).     *)
(* The value float("nan"), which the amount parser accepts, is NaN.        *)
(* Documents of a collection are enumerated in insertion order.            *)
(***************************************************************************)
EXTENDS Integers, Sequences, FiniteSets, TLC

VARIABLES
  loans,        \* db.loans: loan id -> [userId, amount, disbursementStatus]
  wallets,      \* db.wallets: sequence (insertion order) of [userId, loanId, balance]; _id = index
  withdrawals,  \* db.withdrawals: sequence of [userId, amount, status, walletDeductions]; _id = index
  userBalance,  \* db.users: user id -> the user's "balance" field
  resp,         \* the request served last and its response
  reqs,         \* SpecC: the make_withdrawal requests in flight, by request slot
  repayments    \* db.repayments: sequence of [loanId, amount, status, rejectionReason]; _id = index

vars == <<loans, wallets, withdrawals, userBalance, resp, reqs, repayments>>

----------------------------------------------------------------------------
(* Bounds of the model *)

\* at most this many withdrawal documents are created
MaxWithdrawals == 2
\* SpecC: this many make_withdrawal requests are served, at the same time
MaxRequests == 2
\* a reject that would raise the user's total wallet balance above this is not
\* taken (a withdrawal can be rejected any number of times)
MaxBalance == 8
\* the balance field of user u1 when the model starts (u2 has none: 0)
InitBalance == 6
\* SpecR: at most this many repayments are submitted
MaxRepayments == 2

----------------------------------------------------------------------------
(* The documents the model starts with *)

\* u1 sends the requests of the model; u2 owns a loan and its wallet and
\* sends none
Users == {"u1", "u2"}

Callers == {"u1"}

\* db.loans in insertion order
LoanOrder == <<"L1", "L2", "L3">>

LoanIds == {LoanOrder[i] : i \in 1..Len(LoanOrder)}

LoanOwner(l) == IF l = "L3" THEN "u2" ELSE "u1"

LoanAmount(l) == CASE l = "L1" -> 5 [] l = "L2" -> 3 [] OTHER -> 2

\* float("nan"), kept apart from every amount
NaN == -999

\* what a request body may carry as "amount": nothing, text that is no number,
\* the text "nan", or a number
Num(n) == [kind |-> "num", val |-> n]

\* the numbers requested: non-positive ones, 1, 5 (what the wallet of L1
\* holds), 7 (more than either wallet of u1 holds) and 9 (more than both hold)
Amounts == {-1, 0, 1, 5, 7, 9}

AmountInputs ==
  {[kind |-> k, val |-> 0] : k \in {"missing", "text", "nan"}}
    \cup {Num(n) : n \in Amounts}

\* what a request body may carry as "service"
ServiceInputs == {"missing", "MonCash", "PayPal"}

\* what a PATCH body may carry as "status"
StatusInputs == {"approved", "rejected", "paid"}

\* SpecC: the request slots
Slots == 1..MaxRequests

\* a slot whose request has not arrived: pc is where the request stands, snap
\* the wallets it read, todo the update_one calls it has yet to make, deducted
\* its deducted_per_wallet, code and wid its response
IdleReq ==
  [pc |-> "idle", userId |-> "", amount |-> 0, snap |-> <<>>, todo |-> <<>>,
   deducted |-> <<>>, code |-> 0, error |-> "", wid |-> 0]

\* the request served last: the handler, the user and withdrawal it was about,
\* the status code and error kind of the response, the wallets and total the
\* response reports; repeat: the request before it was the same sync; pre: the
\* wallet balances before the withdrawal was created, for the request that
\* created it and for a reject of it that comes next; elapsed: the time since
\* the loan's due date at which a repayment was approved
NoResp ==
  [op |-> "none", userId |-> "", wid |-> 0, code |-> 0, error |-> "",
   out |-> <<>>, total |-> 0, repeat |-> FALSE, pre |-> <<>>,
   elapsed |-> [days |-> 0, part |-> FALSE]]

----------------------------------------------------------------------------
(* Python arithmetic on amounts, NaN included *)

IsNum(x) == x # NaN

\* a >= b
Ge(a, b) == IsNum(a) /\ IsNum(b) /\ a >= b

\* a > b
Gt(a, b) == IsNum(a) /\ IsNum(b) /\ a > b

\* a <= b
Le(a, b) == IsNum(a) /\ IsNum(b) /\ a <= b

\* a - b
Sub(a, b) == IF IsNum(a) /\ IsNum(b) THEN a - b ELSE NaN

\* a + b
Add(a, b) == IF IsNum(a) /\ IsNum(b) THEN a + b ELSE NaN

\* max(a, 0): the first argument stays unless 0 > a
Max0(a) == IF Gt(0, a) THEN 0 ELSE a

RECURSIVE SumSeq(_)
SumSeq(s) == IF s = <<>> THEN 0 ELSE Add(Head(s), SumSeq(Tail(s)))

RECURSIVE SumFun(_)
SumFun(f) ==
  IF DOMAIN f = {} THEN 0
  ELSE LET k == CHOOSE x \in DOMAIN f : TRUE
       IN Add(f[k], SumFun([x \in DOMAIN f \ {k} |-> f[x]]))

----------------------------------------------------------------------------
(* Queries *)

\* wallets_collection.find({"userId": u}): the _ids, in enumeration order
RECURSIVE IdsFrom(_, _, _)
IdsFrom(ws, u, i) ==
  IF i > Len(ws) THEN <<>>
  ELSE IF ws[i].userId = u THEN <<i>> \o IdsFrom(ws, u, i + 1)
       ELSE IdsFrom(ws, u, i + 1)

WalletIdsOf(ws, u) == IdsFrom(ws, u, 1)

\* the documents a find returned: sequence of [id, balance]
Snapshot(ws, u) ==
  LET ids == WalletIdsOf(ws, u)
  IN [k \in 1..Len(ids) |-> [id |-> ids[k], balance |-> ws[ids[k]].balance]]

\* sum(w.get("balance", 0) for w in wallets)
TotalBalance(snap) == SumSeq([k \in 1..Len(snap) |-> snap[k].balance])

FindWallet_none(ws, u, l) == 0

\* wallets_collection.find_one({"userId": u, "loanId": l}): the _id, 0 when none
FindWallet(ws, u, l) ==
  LET hits == {i \in 1..Len(ws) : ws[i].userId = u /\ ws[i].loanId = l}
  IN IF hits = {} THEN 0 ELSE CHOOSE i \in hits : \A j \in hits : i <= j

\* loans_collection.find({"userId": u, "disbursementStatus": "completed"})
CompletedLoans(u) ==
  SelectSeq(LoanOrder,
            LAMBDA l : loans[l].userId = u /\ loans[l].disbursementStatus = "completed")

Balances(ws) == [i \in 1..Len(ws) |-> ws[i].balance]

----------------------------------------------------------------------------
(* sync_wallet *)

WalletData_empty(u, l) == [userId |-> u, loanId |-> l, balance |-> 0]

\* the wallet document sync_wallet inserts for a loan
WalletData(u, l) == [userId |-> u, loanId |-> l, balance |-> loans[l].amount]

\* the balance sync_wallet reports for a wallet that exists
ExistingBalance(wallet) == wallet.balance

KeepWallet_resets(ws, wid, l) == [ws EXCEPT ![wid].balance = loans[l].amount]

\* what the loop does to the collection for a loan whose wallet exists: nothing
KeepWallet(ws, wid, l) == ws

\* the loop over the user's completed loans: ws is the collection so far,
\* out the list returned so far, total the running total
RECURSIVE SyncLoop(_, _, _, _, _)
SyncLoop(ls, u, ws, out, total) ==
  IF ls = <<>> THEN [wallets |-> ws, out |-> out, total |-> total]
  ELSE LET l == Head(ls)
           wid == FindWallet(ws, u, l)
           ws2 == IF wid = 0 THEN Append(ws, WalletData(u, l))
                  ELSE KeepWallet(ws, wid, l)
           balance == IF wid = 0 THEN WalletData(u, l).balance
                      ELSE ExistingBalance(ws[wid])
       IN SyncLoop(Tail(ls), u, ws2,
                   Append(out, [loanId |-> l, balance |-> balance]),
                   total + balance)

\* sync_wallet(u) on the collection ws: the collection afterwards, the list
\* of per-loan balances and the total
sync_wallet(ws, u) ==
  LET ls == CompletedLoans(u)
  IN IF ls = <<>> THEN [wallets |-> ws, out |-> <<>>, total |-> 0]
     ELSE SyncLoop(ls, u, ws, <<>>, 0)

\* GET /wallet?userId=u
get_wallet(u) ==
  LET r == sync_wallet(wallets, u)
  IN /\ wallets' = r.wallets
     /\ resp' = [NoResp EXCEPT !.op = "sync_wallet", !.userId = u, !.code = 200,
                               !.out = r.out, !.total = r.total,
                               !.repeat = (resp.op = "sync_wallet" /\ resp.userId = u)]
     /\ UNCHANGED <<loans, withdrawals, userBalance, reqs, repayments>>

----------------------------------------------------------------------------
(* make_withdrawal *)

\* not all([user_id, amount, account_name, account_number, service])
FieldMissing(a, svc) ==
  \/ a.kind = "missing"
  \/ (a.kind = "num" /\ a.val = 0)
  \/ svc = "missing"

\* float(amount) raises ValueError
NotANumber(a) == a.kind = "text"

\* float(amount)
ToFloat(a) == IF a.kind = "nan" THEN NaN ELSE a.val

\* amount <= 0
NotPositive(amount) == Le(amount, 0)

ExceedsBalance_unchecked(amount, total) == FALSE


\* amount > total_balance
ExceedsBalance(amount, total) == Gt(amount, total)

Covers_strict(w_balance, remaining) == Gt(w_balance, remaining)

\* w_balance >= remaining_amount: the wallet covers what remains
Covers(w_balance, remaining) == Ge(w_balance, remaining)

RemainingBalance_swapped(w_balance, remaining) == Sub(remaining, w_balance)

\* new_balance = w_balance - remaining_amount
RemainingBalance(w_balance, remaining) == Sub(w_balance, remaining)

Carry_forgotten(remaining, w_balance) == remaining


\* remaining_amount -= w_balance
Carry(remaining, w_balance) == Sub(remaining, w_balance)

\* the deduction loop over the wallets read (snap: the documents not yet
\* visited): the update_one calls it makes, in order (the wallet, the balance
\* set and the amount that takes off), and deducted_per_wallet
RECURSIVE DeductLoop(_, _, _, _)
DeductLoop(snap, remaining, writes, deducted) ==
  IF snap = <<>>
  THEN [writes |-> writes, deducted |-> deducted, remaining |-> remaining]
  ELSE LET w == Head(snap)
       IN IF Covers(w.balance, remaining)
          THEN [writes |-> Append(writes,
                                  [id |-> w.id,
                                   balance |-> RemainingBalance(w.balance, remaining),
                                   deducted |-> remaining]),
                deducted |-> (w.id :> remaining) @@ deducted,
                remaining |-> 0]
          ELSE DeductLoop(Tail(snap), Carry(remaining, w.balance),
                          Append(writes, [id |-> w.id, balance |-> 0,
                                          deducted |-> w.balance]),
                          (w.id :> w.balance) @@ deducted)

\* a function with no key: deducted_per_wallet = {}
NoDeductions == [k \in {} |-> 0]

UpdateOne_decrements(ws, write) ==
  [ws EXCEPT ![write.id].balance = @ - write.deducted]

\* update_one({"_id": id}, {"$set": {"balance": new_balance}}): the balance
\* computed from the wallet as it was read replaces the stored one
UpdateOne(ws, write) == [ws EXCEPT ![write.id].balance = write.balance]

\* the update_one calls of the loop, in order
RECURSIVE ApplyWrites(_, _)
ApplyWrites(ws, writes) ==
  IF writes = <<>> THEN ws
  ELSE ApplyWrites(UpdateOne(ws, Head(writes)), Tail(writes))

\* the withdrawal document make_withdrawal inserts
WithdrawalDoc(u, amount, deducted) ==
  [userId |-> u, amount |-> amount, status |-> "pending",
   walletDeductions |-> deducted]

\* the checks before the deduction loop, on the wallets read (snap): the kind
\* of the 400 response, "" when the request passes
RequestError(snap, a, svc) ==
  IF FieldMissing(a, svc) THEN "required"
  ELSE IF NotANumber(a) THEN "not_a_number"
  ELSE IF NotPositive(ToFloat(a)) THEN "not_positive"
  ELSE IF snap = <<>> THEN "no_wallet"
  ELSE IF ExceedsBalance(ToFloat(a), TotalBalance(snap)) THEN "exceeds_balance"
  ELSE ""

\* the handler on collections ws and wds: status code, error kind and the
\* collections afterwards
make_withdrawal_result(ws, wds, u, a, svc) ==
  LET snap == Snapshot(ws, u)
      e == RequestError(snap, a, svc)
      d == DeductLoop(snap, ToFloat(a), <<>>, NoDeductions)
  IN IF e # ""
     THEN [code |-> 400, error |-> e, wallets |-> ws, withdrawals |-> wds]
     ELSE [code |-> 201, error |-> "",
           wallets |-> ApplyWrites(ws, d.writes),
           withdrawals |-> Append(wds, WithdrawalDoc(u, ToFloat(a), d.deducted))]

\* POST /wallet/withdraw, served without interruption
make_withdrawal(u, a, svc) ==
  LET r == make_withdrawal_result(wallets, withdrawals, u, a, svc)
  IN /\ r.code = 201 => Len(withdrawals) < MaxWithdrawals
     /\ wallets' = r.wallets
     /\ withdrawals' = r.withdrawals
     /\ resp' = [NoResp EXCEPT !.op = "make_withdrawal", !.userId = u,
                               !.code = r.code, !.error = r.error,
                               !.wid = IF r.code = 201 THEN Len(r.withdrawals) ELSE 0,
                               !.total = IF r.code = 201
                                         THEN TotalBalance(Snapshot(r.wallets, u)) ELSE 0,
                               !.pre = IF r.code = 201 THEN Balances(wallets) ELSE <<>>]
     /\ UNCHANGED <<loans, userBalance, reqs, repayments>>

----------------------------------------------------------------------------
(* Admin routes of the wallet ledger (wallet.py) *)

\* withdrawals_collection.find_one({"_id": w}) finds a document
Found(w) == w \in 1..Len(withdrawals)

SetStatus_dropsLedger(wds, w, st) ==
  [wds EXCEPT ![w].status = st, ![w].walletDeductions = NoDeductions]

\* update_one({"_id": w}, {"$set": {"status": st}})
SetStatus(wds, w, st) == [wds EXCEPT ![w].status = st]

\* the status admin_approve_withdrawal stores
AdminApproveStatus(withdrawal) == "approved"

\* POST /wallet/admin/withdrawals/<w>/approve
admin_approve_withdrawal(w) ==
  /\ IF ~Found(w)
     THEN /\ resp' = [NoResp EXCEPT !.op = "admin_approve_withdrawal", !.wid = w,
                                    !.code = 404, !.error = "not_found"]
          /\ UNCHANGED withdrawals
     ELSE /\ withdrawals' = SetStatus(withdrawals, w, AdminApproveStatus(withdrawals[w]))
          /\ resp' = [NoResp EXCEPT !.op = "admin_approve_withdrawal", !.wid = w,
                                    !.userId = withdrawals[w].userId, !.code = 200]
  /\ UNCHANGED <<loans, wallets, userBalance, reqs, repayments>>

RestoredBalance_overwrites(wallet, deducted_amount) == deducted_amount


\* the balance admin_reject_withdrawal writes to a wallet it found
RestoredBalance(wallet, deducted_amount) == wallet.balance + deducted_amount

RestoreDeductions_recomputed(ws, deductions) ==
  [i \in 1..Len(ws) |->
     IF i \in DOMAIN deductions
     THEN [ws[i] EXCEPT !.balance = loans[ws[i].loanId].amount]
     ELSE ws[i]]

\* the loop over walletDeductions.items(): every recorded wallet that is found
\* gets its deducted amount back
RestoreDeductions(ws, deductions) ==
  [i \in 1..Len(ws) |->
     IF i \in DOMAIN deductions
     THEN [ws[i] EXCEPT !.balance = RestoredBalance(ws[i], deductions[i])]
     ELSE ws[i]]

\* the status admin_reject_withdrawal stores
AdminRejectStatus(withdrawal) == "rejected"

\* POST /wallet/admin/withdrawals/<w>/reject
admin_reject_withdrawal(w) ==
  /\ IF ~Found(w)
     THEN /\ resp' = [NoResp EXCEPT !.op = "admin_reject_withdrawal", !.wid = w,
                                    !.code = 404, !.error = "not_found"]
          /\ UNCHANGED <<wallets, withdrawals>>
     ELSE /\ wallets' = RestoreDeductions(wallets, withdrawals[w].walletDeductions)
          /\ TotalBalance(Snapshot(wallets', withdrawals[w].userId)) <= MaxBalance
          /\ withdrawals' = SetStatus(withdrawals, w, AdminRejectStatus(withdrawals[w]))
          /\ resp' = [NoResp EXCEPT !.op = "admin_reject_withdrawal", !.wid = w,
                                    !.userId = withdrawals[w].userId, !.code = 200,
                                    !.total = TotalBalance(Snapshot(wallets', withdrawals[w].userId)),
                                    !.pre = IF resp.op = "make_withdrawal" /\ resp.wid = w
                                            THEN resp.pre ELSE <<>>]
  /\ UNCHANGED <<loans, userBalance, reqs, repayments>>

----------------------------------------------------------------------------
(* Admin routes of the account-balance variant *)

\* withdrawal["status"] != "pending"
NotPending(withdrawal) == withdrawal.status # "pending"

NewUserBalance_unclamped(balance, amount) == Sub(balance, amount)

\* max(user.get("balance", 0) - withdrawal["amount"], 0)
NewUserBalance(balance, amount) == Max0(Sub(balance, amount))

\* PUT /admin/withdrawals/approve/<w>  (admin_withdrawals.py)
approve_withdrawal(w) ==
  /\ IF ~Found(w)
     THEN /\ resp' = [NoResp EXCEPT !.op = "approve_withdrawal", !.wid = w,
                                    !.code = 404, !.error = "not_found"]
          /\ UNCHANGED <<withdrawals, userBalance>>
     ELSE IF NotPending(withdrawals[w])
     THEN /\ resp' = [NoResp EXCEPT !.op = "approve_withdrawal", !.wid = w,
                                    !.userId = withdrawals[w].userId,
                                    !.code = 400, !.error = "not_pending"]
          /\ UNCHANGED <<withdrawals, userBalance>>
     ELSE LET u == withdrawals[w].userId
          IN /\ userBalance' =
                  IF u \in DOMAIN userBalance
                  THEN [userBalance EXCEPT
                          ![u] = NewUserBalance(userBalance[u], withdrawals[w].amount)]
                  ELSE userBalance
             /\ withdrawals' = SetStatus(withdrawals, w, "approved")
             /\ resp' = [NoResp EXCEPT !.op = "approve_withdrawal", !.wid = w,
                                       !.userId = u, !.code = 200]
  /\ UNCHANGED <<loans, wallets, reqs, repayments>>

\* PUT /admin/withdrawals/reject/<w>  (admin_withdrawals.py)
reject_withdrawal(w) ==
  /\ IF ~Found(w)
     THEN /\ resp' = [NoResp EXCEPT !.op = "reject_withdrawal", !.wid = w,
                                    !.code = 404, !.error = "not_found"]
          /\ UNCHANGED withdrawals
     ELSE IF NotPending(withdrawals[w])
     THEN /\ resp' = [NoResp EXCEPT !.op = "reject_withdrawal", !.wid = w,
                                    !.userId = withdrawals[w].userId,
                                    !.code = 400, !.error = "not_pending"]
          /\ UNCHANGED withdrawals
     ELSE /\ withdrawals' = SetStatus(withdrawals, w, "rejected")
          /\ resp' = [NoResp EXCEPT !.op = "reject_withdrawal", !.wid = w,
                                    !.userId = withdrawals[w].userId, !.code = 200]
  /\ UNCHANGED <<loans, wallets, userBalance, reqs, repayments>>

\* PATCH /withdrawals/<w> with body {"status": status}  (admin_repayments.py)
update_withdrawal(w, status) ==
  /\ IF ~Found(w)
     THEN /\ resp' = [NoResp EXCEPT !.op = "update_withdrawal", !.wid = w,
                                    !.code = 404, !.error = "not_found"]
          /\ UNCHANGED <<withdrawals, userBalance>>
     ELSE IF NotPending(withdrawals[w])
     THEN /\ resp' = [NoResp EXCEPT !.op = "update_withdrawal", !.wid = w,
                                    !.userId = withdrawals[w].userId,
                                    !.code = 400, !.error = "not_pending"]
          /\ UNCHANGED <<withdrawals, userBalance>>
     ELSE LET u == withdrawals[w].userId
          IN /\ userBalance' =
                  IF status = "approved" /\ u \in DOMAIN userBalance
                  THEN [userBalance EXCEPT
                          ![u] = NewUserBalance(userBalance[u], withdrawals[w].amount)]
                  ELSE userBalance
             /\ withdrawals' = SetStatus(withdrawals, w, status)
             /\ resp' = [NoResp EXCEPT !.op = "update_withdrawal", !.wid = w,
                                       !.userId = u, !.code = 200]
  /\ UNCHANGED <<loans, wallets, reqs, repayments>>

----------------------------------------------------------------------------
(* Withdrawal requests of the account-balance variant (withdrawals.py),    *)
(* and every request body that the two creation routes may be sent         *)

\* field not in data or not data[field], for amount and paymentMethod
PaymentFieldMissing(a, method) ==
  \/ a.kind = "missing"
  \/ (a.kind = "num" /\ a.val = 0)
  \/ method = "missing"

\* payment_method not in ['MonCash', 'NatCash']
InvalidMethod(method) == method \notin {"MonCash", "NatCash"}

\* loans_collection.find({"userId": u, "status": "disbursed"})
DisbursedLoans(u) ==
  SelectSeq(LoanOrder,
            LAMBDA l : loans[l].userId = u /\ loans[l].status = "disbursed")

\* available_balance = sum(loan['amount'] for loan in loans)
available_balance(u) ==
  SumSeq([k \in 1..Len(DisbursedLoans(u)) |-> loans[DisbursedLoans(u)[k]].amount])

\* the checks of create_withdrawal, in order: the kind of the 400 response,
\* "" when the request passes
CreateError(u, a, method) ==
  IF PaymentFieldMissing(a, method) THEN "required"
  ELSE IF NotANumber(a) THEN "not_a_number"
  ELSE IF NotPositive(ToFloat(a)) THEN "not_positive"
  ELSE IF InvalidMethod(method) THEN "invalid_method"
  ELSE IF Gt(ToFloat(a), available_balance(u)) THEN "exceeds_balance"
  ELSE ""

\* POST /api/withdrawals: the document inserted has no walletDeductions
create_withdrawal(u, a, method) ==
  LET e == CreateError(u, a, method)
  IN /\ e = "" => Len(withdrawals) < MaxWithdrawals
     /\ withdrawals' =
          IF e = "" THEN Append(withdrawals, WithdrawalDoc(u, ToFloat(a), NoDeductions))
          ELSE withdrawals
     /\ resp' = [NoResp EXCEPT !.op = "create_withdrawal", !.userId = u,
                               !.code = IF e = "" THEN 201 ELSE 400,
                               !.error = e,
                               !.wid = IF e = "" THEN Len(withdrawals) + 1 ELSE 0]
     /\ UNCHANGED <<loans, wallets, userBalance, reqs, repayments>>

----------------------------------------------------------------------------
(* Repayment verification (admin_repayments.py).  Repayment amounts and    *)
(* principals are whole numbers; interest, late fee and total due are in   *)
(* hundredths, where 10% and 5% of a whole number are whole.               *)

\* what a PUT body may carry as "reason"
ReasonInputs == {"missing", "no proof"}

Reason_dropped(body) == ""

\* request.json.get("reason", "No reason provided")
Reason(body) == IF body = "missing" THEN "No reason provided" ELSE body

\* datetime.utcnow() - loan["dueDate"] at the time a request is served: days
\* is the whole days of the difference, rounded down (timedelta.days), part
\* whether a part of a day lies beyond them.  Before the due date, at it, a
\* part of a day after it, short of 30 days, 30 days, 30 days and a part, 40
\* days.
Elapsed ==
  {[days |-> -1, part |-> TRUE], [days |-> 0, part |-> FALSE],
   [days |-> 0, part |-> TRUE], [days |-> 29, part |-> TRUE],
   [days |-> 30, part |-> FALSE], [days |-> 30, part |-> TRUE],
   [days |-> 40, part |-> FALSE]}

\* datetime.utcnow() > loan["dueDate"]
PastDue(delta) == delta.days > 0 \/ (delta.days = 0 /\ delta.part)

months_late_rounded(delta) == (delta.days + 29) \div 30

\* ((datetime.utcnow() - loan["dueDate"]).days // 30) + 1
months_late(delta) == (delta.days \div 30) + 1

\* principal * 0.10, in hundredths
interest(principal) == principal * 10

\* late_fee, in hundredths: principal * 0.05 * months_late past the due date
late_fee(principal, delta) ==
  IF PastDue(delta) THEN principal * 5 * months_late(delta) ELSE 0

\* total_due = principal + interest + late_fee, in hundredths
total_due(principal, delta) ==
  principal * 100 + interest(principal) + late_fee(principal, delta)

Counted_unverified(rps, l, k) == rps[k].loanId = l

\* the documents the aggregation matches: those of the loan that are verified
Counted(rps, l, k) == rps[k].loanId = l /\ rps[k].status = "verified"

\* total_paid: the $sum of amount over the matched documents
total_paid(rps, l) ==
  SumSeq([k \in 1..Len(rps) |-> IF Counted(rps, l, k) THEN rps[k].amount ELSE 0])

\* total_paid >= total_due
FullyRepaid(paid, due) == paid * 100 >= due

\* repayments_collection.find_one({"_id": rp}) finds a document
FoundRepayment(rp) == rp \in 1..Len(repayments)

NotPendingVerification_rejected(repayment) == repayment.status = "rejected"

\* repayment["status"] != "pending_verification"
NotPendingVerification(repayment) == repayment.status # "pending_verification"

\* the loan ledger after the check "if loan fully repaid"
CloseLoan(ls, rps, l, delta) ==
  IF l \in DOMAIN ls
       /\ FullyRepaid(total_paid(rps, l), total_due(ls[l].amount, delta))
  THEN [ls EXCEPT ![l].status = "repaid"]
  ELSE ls

\* PUT /admin/approve/<rp>, served when delta has elapsed since the due date
\* of the repayment's loan
approve_repayment(rp, delta) ==
  /\ IF ~FoundRepayment(rp)
     THEN /\ resp' = [NoResp EXCEPT !.op = "approve_repayment", !.wid = rp,
                                    !.code = 404, !.error = "not_found"]
          /\ UNCHANGED <<repayments, loans>>
     ELSE IF NotPendingVerification(repayments[rp])
     THEN /\ resp' = [NoResp EXCEPT !.op = "approve_repayment", !.wid = rp,
                                    !.code = 400, !.error = "not_pending"]
          /\ UNCHANGED <<repayments, loans>>
     ELSE LET rps == [repayments EXCEPT ![rp].status = "verified"]
          IN /\ repayments' = rps
             /\ loans' = CloseLoan(loans, rps, repayments[rp].loanId, delta)
             /\ resp' = [NoResp EXCEPT !.op = "approve_repayment", !.wid = rp,
                                       !.code = 200, !.elapsed = delta]
  /\ UNCHANGED <<wallets, withdrawals, userBalance, reqs>>

\* PUT /admin/reject/<rp> with body {"reason": body}
reject_repayment(rp, body) ==
  /\ IF ~FoundRepayment(rp)
     THEN /\ resp' = [NoResp EXCEPT !.op = "reject_repayment", !.wid = rp,
                                    !.code = 404, !.error = "not_found"]
          /\ UNCHANGED repayments
     ELSE IF NotPendingVerification(repayments[rp])
     THEN /\ resp' = [NoResp EXCEPT !.op = "reject_repayment", !.wid = rp,
                                    !.code = 400, !.error = "not_pending"]
          /\ UNCHANGED repayments
     ELSE /\ repayments' = [repayments EXCEPT ![rp].status = "rejected",
                                              ![rp].rejectionReason = Reason(body)]
          /\ resp' = [NoResp EXCEPT !.op = "reject_repayment", !.wid = rp,
                                    !.code = 200]
  /\ UNCHANGED <<loans, wallets, withdrawals, userBalance, reqs>>

\* the principal of a loan of the repayment ledger
Principal(l) == IF l = "L1" THEN 1000 ELSE 20

\* the repayments submitted: for loan L1 amounts that reach, alone or
\* together, what is due on time (1100) and 40 days late (1200) or one less,
\* for loan L2, and for a loan that is no longer in db.loans
RepaymentInputs ==
  {<<"L1", 1>>, <<"L1", 1099>>, <<"L1", 1199>>, <<"L1", 1200>>,
   <<"L2", 1200>>, <<"L0", 1>>}

\* a repayment is submitted (by the repayments blueprint, which is not among
\* the files of src/): a document with status "pending_verification"
submit_repayment(l, a) ==
  /\ Len(repayments) < MaxRepayments
  /\ repayments' = Append(repayments,
                          [loanId |-> l, amount |-> a,
                           status |-> "pending_verification",
                           rejectionReason |-> ""])
  /\ resp' = [NoResp EXCEPT !.op = "submit_repayment"]
  /\ UNCHANGED <<loans, wallets, withdrawals, userBalance, reqs>>

\* the loans are disbursed and synced to wallets; nothing is repaid
InitR ==
  /\ loans = [l \in LoanIds |->
                [userId |-> LoanOwner(l), amount |-> Principal(l),
                 disbursementStatus |-> "completed", status |-> "disbursed"]]
  /\ wallets = [k \in 1..Len(LoanOrder) |->
                  [userId |-> LoanOwner(LoanOrder[k]), loanId |-> LoanOrder[k],
                   balance |-> Principal(LoanOrder[k])]]
  /\ withdrawals = <<>>
  /\ userBalance = [u \in Users |-> IF u = "u1" THEN InitBalance ELSE 0]
  /\ resp = NoResp
  /\ reqs = [r \in Slots |-> IdleReq]
  /\ repayments = <<>>

NextR ==
  \/ \E sub \in RepaymentInputs : submit_repayment(sub[1], sub[2])
  \/ \E rp \in 0..Len(repayments), delta \in Elapsed : approve_repayment(rp, delta)
  \/ \E rp \in 0..Len(repayments), body \in ReasonInputs : reject_repayment(rp, body)

SpecR == InitR /\ [][NextR]_vars

-----------------------------------------------------------------------------
(* The life of a loan (loans.py, admin_repayments.py).  apply_for_loan is   *)
(* the only writer of db.loans among the files at hand besides              *)
(* approve_repayment; the approval of a loan, its disbursement and its      *)
(* turning overdue are steps of the back office.                            *)

\* the most loans applied for
MaxLoans == 2

\* data["amount"] of a loan application
LoanAmountInputs ==
  {[kind |-> "missing", val |-> 0], [kind |-> "text", val |-> 0],
   Num(0), Num(1000)}

\* data["repaymentPeriod"]: a label of period_map, a number of months that is
\* not positive
PeriodInputs == {"1 Month", "0"}

\* disbursementMethod with its details: a QR code, natcash with account and
\* name, natcash without them
DisbursementInputs == {"qr_code", "natcash", "natcash_incomplete"}

\* a required field is not in the body
LoanFieldMissing(a) == a.kind = "missing"

\* float(data["amount"]) raises, or amount <= 0
InvalidLoanAmount(a) == NotANumber(a) \/ NotPositive(ToFloat(a))

\* raw_period is no label and no positive number
InvalidPeriod(p) == p # "1 Month"

\* natcash or moncash without the account details
DetailsMissing(d) == d = "natcash_incomplete"

\* the error of a loan application, "" when it is accepted
LoanError(a, p, d) ==
  IF LoanFieldMissing(a) THEN "required"
  ELSE IF InvalidLoanAmount(a) THEN "invalid_amount"
  ELSE IF InvalidPeriod(p) THEN "invalid_period"
  ELSE IF DetailsMissing(d) THEN "missing_details"
  ELSE ""

InitialStatus_approved == "approved"

\* "status": "pending" of the loan document
InitialStatus == "pending"

\* the _id insert_one gives the next loan
NewLoanId(ls) == LoanOrder[Cardinality(DOMAIN ls) + 1]

\* POST /api/loans/apply by user u
apply_for_loan(u, a, p, d) ==
  LET e == LoanError(a, p, d)
  IN /\ e = "" => Cardinality(DOMAIN loans) < MaxLoans
                  /\ Cardinality(DOMAIN loans) < Len(LoanOrder)
     /\ loans' = IF e = ""
                 THEN LET new == NewLoanId(loans)
                      IN [l \in DOMAIN loans \cup {new} |->
                            IF l = new
                            THEN [userId |-> u, amount |-> ToFloat(a),
                                  status |-> InitialStatus]
                            ELSE loans[l]]
                 ELSE loans
     /\ resp' = [NoResp EXCEPT !.op = "apply_for_loan", !.userId = u,
                               !.code = IF e = "" THEN 201 ELSE 400,
                               !.error = e]
     /\ UNCHANGED <<wallets, withdrawals, userBalance, reqs, repayments>>

\* the back office approves a pending loan
approve_loan(l) ==
  /\ l \in DOMAIN loans
  /\ loans[l].status = "pending"
  /\ loans' = [loans EXCEPT ![l].status = "approved"]
  /\ resp' = [NoResp EXCEPT !.op = "approve_loan"]
  /\ UNCHANGED <<wallets, withdrawals, userBalance, reqs, repayments>>

\* the back office disburses an approved loan
disburse_loan(l) ==
  /\ l \in DOMAIN loans
  /\ loans[l].status = "approved"
  /\ loans' = [loans EXCEPT ![l].status = "disbursed"]
  /\ resp' = [NoResp EXCEPT !.op = "disburse_loan"]
  /\ UNCHANGED <<wallets, withdrawals, userBalance, reqs, repayments>>

\* a disbursed loan passes its due date
mark_overdue(l) ==
  /\ l \in DOMAIN loans
  /\ loans[l].status = "disbursed"
  /\ loans' = [loans EXCEPT ![l].status = "overdue"]
  /\ resp' = [NoResp EXCEPT !.op = "mark_overdue"]
  /\ UNCHANGED <<wallets, withdrawals, userBalance, reqs, repayments>>

\* the repayments submitted while loans move through their life
LoanRepayments == {<<"L1", 1>>, <<"L1", 1200>>, <<"L2", 1200>>}

\* the times at which approvals are served: before the due date, 40 days late
LoanElapsed == {[days |-> -1, part |-> TRUE], [days |-> 40, part |-> FALSE]}

\* no loan has been applied for
InitL ==
  /\ loans = [l \in {} |-> [userId |-> "", amount |-> 0, status |-> ""]]
  /\ wallets = <<>>
  /\ withdrawals = <<>>
  /\ userBalance = [u \in Users |-> 0]
  /\ resp = NoResp
  /\ reqs = [r \in Slots |-> IdleReq]
  /\ repayments = <<>>

NextL ==
  \/ \E u \in Callers, a \in LoanAmountInputs, p \in PeriodInputs,
        d \in DisbursementInputs : apply_for_loan(u, a, p, d)
  \/ \E l \in LoanIds : approve_loan(l)
  \/ \E l \in LoanIds : disburse_loan(l)
  \/ \E l \in LoanIds : mark_overdue(l)
  \/ \E sub \in LoanRepayments : submit_repayment(sub[1], sub[2])
  \/ \E rp \in 0..Len(repayments), delta \in LoanElapsed : approve_repayment(rp, delta)

SpecL == InitL /\ [][NextL]_vars

-----------------------------------------------------------------------------
(* The deletion of a user (users.py, dashboard.py, kredinou.py).  db.users  *)
(* is read through userBalance: a user has a document exactly when it is in *)
(* the domain of userBalance.                                               *)

\* the ids a DELETE request names: the users and one that has no document
UserIdInputs == Users \cup {"u0"}

\* users_col.find_one({"_id": query_id}) finds a document
FoundUser(us, id) == id \in DOMAIN us

\* users_col.delete_one({"_id": query_id})
DeleteOne(us, id) == [u \in DOMAIN us \ {id} |-> us[u]]

\* loans_col.delete_many({"$or": matches})
DeleteManyLoans(ls, id) ==
  [l \in {k \in DOMAIN ls : ls[k].userId # id} |-> ls[l]]

\* delete_many({"$or": matches}) on a collection kept as a sequence
DeleteMany(docs, id) == SelectSeq(docs, LAMBDA doc : doc.userId # id)

\* DELETE /users/<id> (users.py)
delete_user(id) ==
  /\ IF ~FoundUser(userBalance, id)
     THEN /\ resp' = [NoResp EXCEPT !.op = "delete_user", !.userId = id,
                                    !.code = 404, !.error = "not_found"]
          /\ UNCHANGED <<loans, repayments, withdrawals, userBalance>>
     ELSE /\ loans' = DeleteManyLoans(loans, id)
          /\ repayments' = DeleteMany(repayments, id)
          /\ withdrawals' = DeleteMany(withdrawals, id)
          /\ userBalance' = DeleteOne(userBalance, id)
          /\ resp' = [NoResp EXCEPT !.op = "delete_user", !.userId = id,
                                    !.code = 200]
  /\ UNCHANGED <<wallets, reqs>>

\* DELETE /users/<id> of the dashboard blueprint (dashboard.py)
dashboard_delete_user(id) ==
  /\ IF ~FoundUser(userBalance, id)
     THEN /\ resp' = [NoResp EXCEPT !.op = "dashboard_delete_user",
                                    !.userId = id,
                                    !.code = 404, !.error = "not_found"]
          /\ UNCHANGED userBalance
     ELSE /\ userBalance' = DeleteOne(userBalance, id)
          /\ resp' = [NoResp EXCEPT !.op = "dashboard_delete_user",
                                    !.userId = id, !.code = 200]
  /\ UNCHANGED <<loans, repayments, withdrawals, wallets, reqs>>

\* delete_user of kredinou.py: the module defines none of
\* _to_objectid_or_raw, users_col, _error and current_app, so the first
\* statement of the try block raises NameError, the except clause raises it
\* again and the request is answered 500 with nothing deleted
kredinou_delete_user(id) ==
  /\ resp' = [NoResp EXCEPT !.op = "kredinou_delete_user", !.userId = id,
                            !.code = 500, !.error = "internal"]
  /\ UNCHANGED <<loans, repayments, withdrawals, userBalance, wallets, reqs>>

\* the repayment documents in db.repayments before a deletion
StoredRepayments ==
  {[loanId |-> l, userId |-> LoanOwner(l), amount |-> 1,
    status |-> "pending_verification", rejectionReason |-> ""] :
     l \in {"L1", "L3"}}

\* the withdrawal documents in db.withdrawals before a deletion
StoredWithdrawals == {WithdrawalDoc(u, 1, NoDeductions) : u \in Users}

\* both users are registered; any of the loans, and up to MaxRepayments
\* repayments and MaxWithdrawals withdrawals of either user are stored
InitD ==
  /\ \E S \in SUBSET LoanIds :
       loans = [l \in S |->
                  [userId |-> LoanOwner(l), amount |-> LoanAmount(l),
                   disbursementStatus |-> "pending", status |-> "pending"]]
  /\ \E n \in 0..MaxRepayments : repayments \in [1..n -> StoredRepayments]
  /\ \E n \in 0..MaxWithdrawals : withdrawals \in [1..n -> StoredWithdrawals]
  /\ wallets = <<>>
  /\ userBalance = [u \in Users |-> 0]
  /\ resp = NoResp
  /\ reqs = [r \in Slots |-> IdleReq]

NextD ==
  \/ \E id \in UserIdInputs : delete_user(id)
  \/ \E id \in UserIdInputs : dashboard_delete_user(id)
  \/ \E id \in UserIdInputs : kredinou_delete_user(id)

SpecD == InitD /\ [][NextD]_vars



----------------------------------------------------------------------------
(* The disbursement of a loan is marked completed (by the disbursement     *)
(* back office, which sync_wallet only reads)                              *)

complete_disbursement(l) ==
  /\ loans[l].disbursementStatus # "completed"
  /\ loans' = [loans EXCEPT ![l].disbursementStatus = "completed"]
  /\ resp' = [NoResp EXCEPT !.op = "complete_disbursement", !.userId = loans[l].userId]
  /\ UNCHANGED <<wallets, withdrawals, userBalance, reqs, repayments>>

----------------------------------------------------------------------------
(* Requests served one after the other *)

Init ==
  /\ loans = [l \in LoanIds |->
                [userId |-> LoanOwner(l), amount |-> LoanAmount(l),
                 disbursementStatus |-> IF LoanOwner(l) \in Callers
                                        THEN "pending" ELSE "completed"]]
  /\ wallets = <<[userId |-> "u2", loanId |-> "L3", balance |-> LoanAmount("L3")]>>
  /\ withdrawals = <<>>
  /\ userBalance = [u \in Users |-> IF u = "u1" THEN InitBalance ELSE 0]
  /\ resp = NoResp
  /\ reqs = [r \in Slots |-> IdleReq]
  /\ repayments = <<>>

Next ==
  \/ \E l \in LoanIds : complete_disbursement(l)
  \/ \E u \in Callers : get_wallet(u)
  \/ \E u \in Callers, n \in Amounts : make_withdrawal(u, Num(n), "MonCash")
  \/ \E w \in 0..Len(withdrawals) : admin_approve_withdrawal(w)
  \/ \E w \in 0..Len(withdrawals) : admin_reject_withdrawal(w)

Spec == Init /\ [][Next]_vars

----------------------------------------------------------------------------
(* The same, with the admin routes of the account-balance variant, which   *)
(* act on the same withdrawals collection                                   *)

NextA ==
  \/ \E l \in LoanIds : complete_disbursement(l)
  \/ \E u \in Callers : get_wallet(u)
  \/ \E u \in Callers, n \in Amounts : make_withdrawal(u, Num(n), "MonCash")
  \/ \E w \in 0..Len(withdrawals) : admin_approve_withdrawal(w)
  \/ \E w \in 0..Len(withdrawals) : admin_reject_withdrawal(w)
  \/ \E w \in 0..Len(withdrawals) : approve_withdrawal(w)
  \/ \E w \in 0..Len(withdrawals) : reject_withdrawal(w)
  \/ \E w \in 0..Len(withdrawals), status \in StatusInputs : update_withdrawal(w, status)

SpecA == Init /\ [][NextA]_vars

----------------------------------------------------------------------------
(* Every request body: the two creation routes with each amount and        *)
(* service they may be sent                                                *)

\* the loans as in Init, with the status field that create_withdrawal reads:
\* L1 is disbursed, L2 approved and not yet disbursed
InitV ==
  /\ loans = [l \in LoanIds |->
                [userId |-> LoanOwner(l), amount |-> LoanAmount(l),
                 disbursementStatus |-> IF LoanOwner(l) \in Callers
                                        THEN "pending" ELSE "completed",
                 status |-> IF l = "L2" THEN "approved" ELSE "disbursed"]]
  /\ wallets = <<[userId |-> "u2", loanId |-> "L3", balance |-> LoanAmount("L3")]>>
  /\ withdrawals = <<>>
  /\ userBalance = [u \in Users |-> IF u = "u1" THEN InitBalance ELSE 0]
  /\ resp = NoResp
  /\ reqs = [r \in Slots |-> IdleReq]
  /\ repayments = <<>>

NextV ==
  \/ \E l \in LoanIds : complete_disbursement(l)
  \/ \E u \in Callers : get_wallet(u)
  \/ \E u \in Callers, a \in AmountInputs, svc \in ServiceInputs :
       make_withdrawal(u, a, svc)
  \/ \E u \in Callers, a \in AmountInputs, method \in ServiceInputs :
       create_withdrawal(u, a, method)

SpecV == InitV /\ [][NextV]_vars

\* the account-balance variant from the request to its review: withdrawals
\* are created by create_withdrawal and reviewed by the admin routes that
\* debit the user's balance
NextB ==
  \/ \E u \in Callers, n \in Amounts : create_withdrawal(u, Num(n), "MonCash")
  \/ \E w \in 0..Len(withdrawals) : approve_withdrawal(w)
  \/ \E w \in 0..Len(withdrawals) : reject_withdrawal(w)
  \/ \E w \in 0..Len(withdrawals), status \in StatusInputs : update_withdrawal(w, status)

SpecB == InitV /\ [][NextB]_vars

----------------------------------------------------------------------------
(* The wallet ledger with the amounts that pass the checks of              *)
(* make_withdrawal: numbers that the wallets cover, and float("nan")       *)

\* 7 (more than either wallet of u1 holds, less than both) and the text "nan"
LedgerInputs == {Num(7), [kind |-> "nan", val |-> 0]}

NextN ==
  \/ \E l \in LoanIds : complete_disbursement(l)
  \/ \E u \in Callers : get_wallet(u)
  \/ \E u \in Callers, a \in LedgerInputs : make_withdrawal(u, a, "MonCash")
  \/ \E w \in 0..Len(withdrawals) : admin_approve_withdrawal(w)
  \/ \E w \in 0..Len(withdrawals) : admin_reject_withdrawal(w)

SpecN == Init /\ [][NextN]_vars

----------------------------------------------------------------------------
(* make_withdrawal as the database operations it performs; requests in     *)
(* different slots interleave between any two of them                      *)

\* lines 89-115: the request is parsed and checked against the wallets that
\* wallets_collection.find returns; a request that passes goes on to the loop
mw_read(r, u, a, svc) ==
  LET snap == Snapshot(wallets, u)
      e == RequestError(snap, a, svc)
      d == DeductLoop(snap, ToFloat(a), <<>>, NoDeductions)
  IN /\ reqs[r].pc = "idle"
     /\ reqs' = [reqs EXCEPT ![r] =
                   IF e # ""
                   THEN [IdleReq EXCEPT !.pc = "done", !.userId = u,
                                        !.amount = ToFloat(a), !.snap = snap,
                                        !.code = 400, !.error = e]
                   ELSE [IdleReq EXCEPT !.pc = "deduct", !.userId = u,
                                        !.amount = ToFloat(a), !.snap = snap,
                                        !.todo = d.writes, !.deducted = d.deducted]]
     /\ UNCHANGED <<loans, wallets, withdrawals, userBalance, resp, repayments>>

\* lines 122-125 and 131-134: the next update_one of the loop, which sets the
\* balance computed from the wallet as it was read
mw_update(r) ==
  /\ reqs[r].pc = "deduct"
  /\ reqs[r].todo # <<>>
  /\ wallets' = UpdateOne(wallets, Head(reqs[r].todo))
  /\ reqs' = [reqs EXCEPT ![r].todo = Tail(@)]
  /\ UNCHANGED <<loans, withdrawals, userBalance, resp, repayments>>

\* lines 139-159: the withdrawal document is inserted and the response sent
mw_insert(r) ==
  /\ reqs[r].pc = "deduct"
  /\ reqs[r].todo = <<>>
  /\ withdrawals' = Append(withdrawals,
                           WithdrawalDoc(reqs[r].userId, reqs[r].amount, reqs[r].deducted))
  /\ reqs' = [reqs EXCEPT ![r].pc = "done", ![r].code = 201,
                          ![r].wid = Len(withdrawals) + 1]
  /\ UNCHANGED <<loans, wallets, userBalance, resp, repayments>>

NextC ==
  \/ \E l \in LoanIds : complete_disbursement(l)
  \/ \E u \in Callers : get_wallet(u)
  \/ \E r \in Slots, u \in Callers, n \in Amounts : mw_read(r, u, Num(n), "MonCash")
  \/ \E r \in Slots : mw_update(r)
  \/ \E r \in Slots : mw_insert(r)

SpecC == Init /\ [][NextC]_vars

----------------------------------------------------------------------------
(* The same, where a request may stop before its next write: the handler   *)
(* wraps its writes in no transaction and no try block, so an error raised *)
(* by update_one or insert_one ends the request with what it has written   *)

\* lines 118-150: the next database call raises; the request answers 500 and
\* nothing that it wrote is taken back
mw_abort(r) ==
  /\ reqs[r].pc = "deduct"
  /\ reqs' = [reqs EXCEPT ![r].pc = "done", ![r].code = 500,
                          ![r].error = "internal"]
  /\ UNCHANGED <<loans, wallets, withdrawals, userBalance, resp, repayments>>

NextF ==
  \/ \E l \in LoanIds : complete_disbursement(l)
  \/ \E u \in Callers : get_wallet(u)
  \/ \E r \in Slots, u \in Callers, n \in Amounts : mw_read(r, u, Num(n), "MonCash")
  \/ \E r \in Slots : mw_update(r)
  \/ \E r \in Slots : mw_insert(r)
  \/ \E r \in Slots : mw_abort(r)

SpecF == Init /\ [][NextF]_vars

-----------------------------------------------------------------------------
(* sync_wallet as the database operations it performs; requests in          *)
(* different slots interleave between any two of them.  In a slot todo is   *)
(* the loans the loop has yet to visit, snap the list built so far and      *)
(* amount the running total.                                                *)

\* the slot after the loop body has finished with the loan at the head of
\* todo, whose wallet holds balance
SyncNext(req, balance) ==
  [req EXCEPT !.todo = Tail(@),
              !.snap = Append(@, [loanId |-> Head(req.todo), balance |-> balance]),
              !.amount = @ + balance,
              !.pc = IF Tail(req.todo) = <<>> THEN "done" ELSE "find",
              !.code = IF Tail(req.todo) = <<>> THEN 200 ELSE 0]

\* line 34-36: the completed loans of the user are read
sw_find_loans(r, u) ==
  LET ls == CompletedLoans(u)
  IN /\ reqs[r].pc = "idle"
     /\ reqs' = [reqs EXCEPT ![r] =
                   IF ls = <<>>
                   THEN [IdleReq EXCEPT !.pc = "done", !.userId = u, !.code = 200]
                   ELSE [IdleReq EXCEPT !.pc = "find", !.userId = u, !.todo = ls]]
     /\ UNCHANGED <<loans, wallets, withdrawals, userBalance, resp, repayments>>

\* lines 42-43 and 55-63: find_one for the next loan; a wallet that is found
\* is reported, one that is not is inserted by the next step of the request
sw_find_one(r) ==
  /\ reqs[r].pc = "find"
  /\ LET wid == FindWallet(wallets, reqs[r].userId, Head(reqs[r].todo))
     IN reqs' = [reqs EXCEPT ![r] =
                   IF wid = 0 THEN [@ EXCEPT !.pc = "insert"]
                   ELSE SyncNext(@, ExistingBalance(wallets[wid]))]
  /\ UNCHANGED <<loans, wallets, withdrawals, userBalance, resp, repayments>>

\* lines 45-54 and 58-63: insert_one of the wallet that find_one did not find
sw_insert_one(r) ==
  /\ reqs[r].pc = "insert"
  /\ LET wallet_data == WalletData(reqs[r].userId, Head(reqs[r].todo))
     IN /\ wallets' = Append(wallets, wallet_data)
        /\ reqs' = [reqs EXCEPT ![r] = SyncNext(@, wallet_data.balance)]
  /\ UNCHANGED <<loans, withdrawals, userBalance, resp, repayments>>

NextS ==
  \/ \E l \in LoanIds : complete_disbursement(l)
  \/ \E r \in Slots, u \in Callers : sw_find_loans(r, u)
  \/ \E r \in Slots : sw_find_one(r)
  \/ \E r \in Slots : sw_insert_one(r)

SpecS == Init /\ [][NextS]_vars

-----------------------------------------------------------------------------
(* approve_withdrawal and reject_withdrawal of admin_withdrawals.py as the  *)
(* database operations they perform; requests in different slots interleave *)
(* between any two of them.  In a slot wid is the withdrawal, amount its    *)
(* amount as read and snap the user's balance once it is read.              *)

\* lines 90-95: find_one of the withdrawal and the check of its status
aw_find(r, w) ==
  /\ reqs[r].pc = "idle"
  /\ reqs' = [reqs EXCEPT ![r] =
                IF ~Found(w)
                THEN [IdleReq EXCEPT !.pc = "done", !.wid = w, !.code = 404,
                                     !.error = "not_found"]
                ELSE IF NotPending(withdrawals[w])
                THEN [IdleReq EXCEPT !.pc = "done", !.wid = w, !.code = 400,
                                     !.error = "not_pending"]
                ELSE [IdleReq EXCEPT !.pc = "find_user", !.wid = w,
                                     !.userId = withdrawals[w].userId,
                                     !.amount = withdrawals[w].amount]]
  /\ UNCHANGED <<loans, wallets, withdrawals, userBalance, resp, repayments>>

\* lines 98-99: find_one of the user
aw_find_user(r) ==
  /\ reqs[r].pc = "find_user"
  /\ reqs' = [reqs EXCEPT ![r] =
                IF reqs[r].userId \in DOMAIN userBalance
                THEN [@ EXCEPT !.pc = "update_user",
                               !.snap = <<userBalance[reqs[r].userId]>>]
                ELSE [@ EXCEPT !.pc = "update_status"]]
  /\ UNCHANGED <<loans, wallets, withdrawals, userBalance, resp, repayments>>

\* lines 100-104: the balance computed from the user as read is written
aw_update_user(r) ==
  /\ reqs[r].pc = "update_user"
  /\ userBalance' =
       IF reqs[r].userId \in DOMAIN userBalance
       THEN [userBalance EXCEPT
               ![reqs[r].userId] = NewUserBalance(reqs[r].snap[1], reqs[r].amount)]
       ELSE userBalance
  /\ reqs' = [reqs EXCEPT ![r].pc = "update_status"]
  /\ UNCHANGED <<loans, wallets, withdrawals, resp, repayments>>

\* lines 106-110: the status is written and the response sent
aw_update_status(r) ==
  /\ reqs[r].pc = "update_status"
  /\ withdrawals' = SetStatus(withdrawals, reqs[r].wid, "approved")
  /\ reqs' = [reqs EXCEPT ![r].pc = "done", ![r].code = 200]
  /\ UNCHANGED <<loans, wallets, userBalance, resp, repayments>>

\* lines 121-127: find_one of the withdrawal and the check of its status
rw_find(r, w) ==
  /\ reqs[r].pc = "idle"
  /\ reqs' = [reqs EXCEPT ![r] =
                IF ~Found(w)
                THEN [IdleReq EXCEPT !.pc = "done", !.wid = w, !.code = 404,
                                     !.error = "not_found"]
                ELSE IF NotPending(withdrawals[w])
                THEN [IdleReq EXCEPT !.pc = "done", !.wid = w, !.code = 400,
                                     !.error = "not_pending"]
                ELSE [IdleReq EXCEPT !.pc = "reject", !.wid = w,
                                     !.userId = withdrawals[w].userId,
                                     !.amount = withdrawals[w].amount]]
  /\ UNCHANGED <<loans, wallets, withdrawals, userBalance, resp, repayments>>

\* lines 129-133: the status is written and the response sent
rw_update_status(r) ==
  /\ reqs[r].pc = "reject"
  /\ withdrawals' = SetStatus(withdrawals, reqs[r].wid, "rejected")
  /\ reqs' = [reqs EXCEPT ![r].pc = "done", ![r].code = 200]
  /\ UNCHANGED <<loans, wallets, userBalance, resp, repayments>>

NextW ==
  \/ \E u \in Callers, n \in Amounts : create_withdrawal(u, Num(n), "MonCash")
  \/ \E r \in Slots, w \in 0..Len(withdrawals) : aw_find(r, w)
  \/ \E r \in Slots : aw_find_user(r)
  \/ \E r \in Slots : aw_update_user(r)
  \/ \E r \in Slots : aw_update_status(r)
  \/ \E r \in Slots, w \in 0..Len(withdrawals) : rw_find(r, w)
  \/ \E r \in Slots : rw_update_status(r)

SpecW == InitV /\ [][NextW]_vars

-----------------------------------------------------------------------------
(* admin_reject_withdrawal of wallet.py as the database operations it       *)
(* performs, beside make_withdrawal as its own.  In a slot that serves a    *)
(* reject wid is the withdrawal, todo the items of walletDeductions not yet *)
(* restored and snap the wallet read for the first of them.                 *)

\* withdrawal.get("walletDeductions", {}).items(), in the order of the
\* wallets
DeductionItems(d) ==
  LET ids == SelectSeq([i \in 1..Len(wallets) |-> i], LAMBDA i : i \in DOMAIN d)
  IN [k \in 1..Len(ids) |-> [id |-> ids[k], deducted |-> d[ids[k]]]]

\* lines 258-263: find_one of the withdrawal; there is no check of its status
ar_find(r, w) ==
  /\ reqs[r].pc = "idle"
  /\ reqs' = [reqs EXCEPT ![r] =
                IF ~Found(w)
                THEN [IdleReq EXCEPT !.pc = "done", !.wid = w, !.code = 404,
                                     !.error = "not_found"]
                ELSE LET items == DeductionItems(withdrawals[w].walletDeductions)
                     IN [IdleReq EXCEPT
                           !.pc = IF items = <<>> THEN "set_status" ELSE "restore",
                           !.wid = w, !.userId = withdrawals[w].userId,
                           !.todo = items]]
  /\ UNCHANGED <<loans, wallets, withdrawals, userBalance, resp, repayments>>

\* line 264: find_one of the wallet of the next item
ar_find_wallet(r) ==
  /\ reqs[r].pc = "restore"
  /\ LET id == Head(reqs[r].todo).id
     IN reqs' = [reqs EXCEPT
                   ![r].pc = "restore_write",
                   ![r].snap = <<[id |-> id, balance |-> wallets[id].balance]>>]
  /\ UNCHANGED <<loans, wallets, withdrawals, userBalance, resp, repayments>>

\* lines 266-270: the balance computed from the wallet as read is written
ar_update_wallet(r) ==
  /\ reqs[r].pc = "restore_write"
  /\ LET item == Head(reqs[r].todo)
     IN wallets' = UpdateOne(wallets,
                             [id |-> item.id,
                              balance |-> RestoredBalance(reqs[r].snap[1], item.deducted),
                              deducted |-> 0 - item.deducted])
  /\ reqs' = [reqs EXCEPT
                ![r].todo = Tail(@), ![r].snap = <<>>,
                ![r].pc = IF Tail(reqs[r].todo) = <<>> THEN "set_status" ELSE "restore"]
  /\ UNCHANGED <<loans, withdrawals, userBalance, resp, repayments>>

\* lines 272-283: the status is written and the response sent
ar_set_status(r) ==
  /\ reqs[r].pc = "set_status"
  /\ withdrawals' = SetStatus(withdrawals, reqs[r].wid,
                              AdminRejectStatus(withdrawals[reqs[r].wid]))
  /\ reqs' = [reqs EXCEPT ![r].pc = "done", ![r].code = 200]
  /\ UNCHANGED <<loans, wallets, userBalance, resp, repayments>>

\* both loans of u1 are disbursed and synced to wallets of 5 and 3, and a
\* withdrawal of 7 has taken 5 and 2 from them and is pending
InitX ==
  /\ loans = [l \in LoanIds |->
                [userId |-> LoanOwner(l), amount |-> LoanAmount(l),
                 disbursementStatus |-> "completed"]]
  /\ LET first == <<[userId |-> "u2", loanId |-> "L3", balance |-> LoanAmount("L3")]>>
         synced == sync_wallet(first, "u1").wallets
         made == make_withdrawal_result(synced, <<>>, "u1", Num(7), "MonCash")
     IN /\ wallets = made.wallets
        /\ withdrawals = made.withdrawals
  /\ userBalance = [u \in Users |-> IF u = "u1" THEN InitBalance ELSE 0]
  /\ resp = NoResp
  /\ reqs = [r \in Slots |-> IdleReq]
  /\ repayments = <<>>

NextX ==
  \/ \E r \in Slots, u \in Callers, n \in Amounts : mw_read(r, u, Num(n), "MonCash")
  \/ \E r \in Slots : mw_update(r)
  \/ \E r \in Slots : mw_insert(r)
  \/ \E r \in Slots, w \in 0..Len(withdrawals) : ar_find(r, w)
  \/ \E r \in Slots : ar_find_wallet(r)
  \/ \E r \in Slots : ar_update_wallet(r)
  \/ \E r \in Slots : ar_set_status(r)

SpecX == InitX /\ [][NextX]_vars

-----------------------------------------------------------------------------
(* approve_repayment as the database operations it performs; requests in    *)
(* different slots interleave between any two of them.  In a slot wid is    *)
(* the repayment, snap the time the request is served at (what has elapsed  *)
(* since the due date), todo the loan as read and amount the total paid as  *)
(* aggregated.                                                              *)

AggregateFor_own(rps, l, rp) == rps[rp].amount

\* the aggregation that the request for repayment rp runs for loan l: the
\* $sum over all verified repayments of the loan
AggregateFor(rps, l, rp) == total_paid(rps, l)

\* lines 80-85: find_one of the repayment and the check of its status
ap_find(r, rp, delta) ==
  /\ reqs[r].pc = "idle"
  /\ reqs' = [reqs EXCEPT ![r] =
                IF ~FoundRepayment(rp)
                THEN [IdleReq EXCEPT !.pc = "done", !.wid = rp, !.code = 404,
                                     !.error = "not_found"]
                ELSE IF NotPendingVerification(repayments[rp])
                THEN [IdleReq EXCEPT !.pc = "done", !.wid = rp, !.code = 400,
                                     !.error = "not_pending"]
                ELSE [IdleReq EXCEPT !.pc = "verify", !.wid = rp,
                                     !.userId = repayments[rp].loanId,
                                     !.snap = <<delta>>]]
  /\ UNCHANGED <<loans, wallets, withdrawals, userBalance, resp, repayments>>

\* lines 88-91: the repayment is marked verified
ap_verify(r) ==
  /\ reqs[r].pc = "verify"
  /\ repayments' = [repayments EXCEPT ![reqs[r].wid].status = "verified"]
  /\ reqs' = [reqs EXCEPT ![r].pc = "find_loan"]
  /\ UNCHANGED <<loans, wallets, withdrawals, userBalance, resp>>

\* lines 94-95: find_one of the loan; without a loan the request answers
ap_find_loan(r) ==
  /\ reqs[r].pc = "find_loan"
  /\ reqs' = [reqs EXCEPT ![r] =
                IF reqs[r].userId \in DOMAIN loans
                THEN [@ EXCEPT !.pc = "aggregate",
                               !.todo = <<loans[reqs[r].userId]>>]
                ELSE [@ EXCEPT !.pc = "done", !.code = 200]]
  /\ UNCHANGED <<loans, wallets, withdrawals, userBalance, resp, repayments>>

\* lines 97-103: the verified repayments of the loan are summed
ap_aggregate(r) ==
  /\ reqs[r].pc = "aggregate"
  /\ reqs' = [reqs EXCEPT ![r].pc = "close",
                          ![r].amount = AggregateFor(repayments, reqs[r].userId,
                                                     reqs[r].wid)]
  /\ UNCHANGED <<loans, wallets, withdrawals, userBalance, resp, repayments>>

\* lines 105-119: the total due is computed from the loan as read and the
\* loan is set to repaid when the total paid reaches it
ap_close(r) ==
  /\ reqs[r].pc = "close"
  /\ loans' = IF FullyRepaid(reqs[r].amount,
                             total_due(reqs[r].todo[1].amount, reqs[r].snap[1]))
              THEN [loans EXCEPT ![reqs[r].userId].status = "repaid"]
              ELSE loans
  /\ reqs' = [reqs EXCEPT ![r].pc = "done", ![r].code = 200]
  /\ UNCHANGED <<wallets, withdrawals, userBalance, resp, repayments>>

\* the repayments submitted for loan L1 (principal 1000): 1 and 1099 reach
\* together what is due on time, 1100 reaches it alone
ClosingRepayments == {<<"L1", 1>>, <<"L1", 1099>>, <<"L1", 1100>>}

\* the times requests are served at: before the due date, 40 days late
ServedAt == {[days |-> -1, part |-> TRUE], [days |-> 40, part |-> FALSE]}

NextP ==
  \/ \E sub \in ClosingRepayments : submit_repayment(sub[1], sub[2])
  \/ \E r \in Slots, rp \in 0..Len(repayments), delta \in ServedAt : ap_find(r, rp, delta)
  \/ \E r \in Slots : ap_verify(r)
  \/ \E r \in Slots : ap_find_loan(r)
  \/ \E r \in Slots : ap_aggregate(r)
  \/ \E r \in Slots : ap_close(r)

SpecP == InitR /\ [][NextP]_vars





----------------------------------------------------------------------------
(* Properties *)

\* the user's total wallet balance
Total(u) == TotalBalance(Snapshot(wallets, u))

\* the step serves make_withdrawal(u, n)
Withdraws(u, n) ==
  /\ resp'.op = "make_withdrawal"
  /\ resp'.userId = u
  /\ make_withdrawal(u, Num(n), "MonCash")

\* the step serves make_withdrawal(u, n) and the request succeeds
Created(u, n) == resp'.code = 201 /\ Withdraws(u, n)

\* the wallets of user u hold something
HoldsFunds(u) == \E i \in 1..Len(wallets) : wallets[i].userId = u /\ wallets[i].balance > 0

(* C1: a make_withdrawal request for more than the user's wallets hold is
   answered with an error, changes no wallet balance and creates no
   withdrawal document. *)
C1_ExcessRejected ==
  [][resp'.op = "make_withdrawal"
       => \A u \in Callers, n \in Amounts :
            (n > Total(u) /\ Withdraws(u, n))
              => /\ resp'.code = 400
                 /\ wallets' = wallets
                 /\ withdrawals' = withdrawals]_vars

\* a request for more than the wallets hold was refused while they held funds
C1_Witness ==
  /\ resp.op = "make_withdrawal"
  /\ resp.error = "exceeds_balance"
  /\ HoldsFunds(resp.userId)
(* C2: a make_withdrawal request for a positive amount A that the user's
   wallets cover succeeds; the amounts it records in walletDeductions sum to
   exactly A and the user's total wallet balance drops by exactly A. *)
C2_DeductionsSumToAmount ==
  [][resp'.op = "make_withdrawal"
       => \A u \in Callers, n \in Amounts :
            (n > 0 /\ n <= Total(u) /\ WalletIdsOf(wallets, u) # <<>>
               /\ Withdraws(u, n))
              => /\ resp'.code = 201
                 /\ SumFun(withdrawals'[resp'.wid].walletDeductions) = n
                 /\ withdrawals'[resp'.wid].amount = n
                 /\ TotalBalance(Snapshot(wallets', u)) = Total(u) - n]_vars

\* a withdrawal was created that took funds from two wallets
C2_Witness ==
  /\ resp.op = "make_withdrawal"
  /\ resp.code = 201
  /\ LET d == withdrawals[resp.wid].walletDeductions
     IN Cardinality({i \in DOMAIN d : d[i] > 0}) = 2
(* C3: when a withdrawal is created and the next request rejects it, every
   wallet the withdrawal took funds from has the balance it had before the
   withdrawal was created. *)
C3_RejectRestores ==
  [][(resp.op = "make_withdrawal" /\ resp.code = 201
        /\ admin_reject_withdrawal(resp.wid))
       => \A i \in DOMAIN withdrawals[resp.wid].walletDeductions :
            wallets'[i].balance = resp.pre[i]]_vars

\* a withdrawal that took funds from two wallets was rejected right after it
\* was created
C3_Witness ==
  /\ resp.op = "admin_reject_withdrawal"
  /\ resp.code = 200
  /\ resp.pre # <<>>
  /\ LET d == withdrawals[resp.wid].walletDeductions
     IN Cardinality({i \in DOMAIN d : d[i] > 0}) = 2
(* C4: a reject of a withdrawal whose status is "approved" or "rejected" is
   answered with an error, leaves the status as it is and credits no wallet,
   whichever reject route serves it. *)
C4_RejectOnlyPending ==
  [][\A w \in 1..Len(withdrawals) :
       (/\ withdrawals[w].status \in {"approved", "rejected"}
        /\ \/ admin_reject_withdrawal(w)
           \/ reject_withdrawal(w))
         => /\ resp'.code >= 400
            /\ withdrawals' = withdrawals
            /\ wallets' = wallets]_vars

(* C5: an approve of a withdrawal whose status is "approved" or "rejected" is
   answered with a state-conflict error and changes neither the withdrawal
   nor any wallet or user balance, whichever route serves it. *)
C5_ApproveOnlyPending ==
  [][\A w \in 1..Len(withdrawals) :
       (/\ withdrawals[w].status \in {"approved", "rejected"}
        /\ \/ admin_approve_withdrawal(w)
           \/ approve_withdrawal(w)
           \/ update_withdrawal(w, "approved"))
         => /\ resp'.code = 400
            /\ withdrawals' = withdrawals
            /\ wallets' = wallets
            /\ userBalance' = userBalance]_vars

\* the walletDeductions of the withdrawal that the request of slot r created
Recorded(r) == withdrawals[reqs[r].wid].walletDeductions

\* the balance that the request of slot r read for wallet i
ReadBalance(r, i) ==
  LET k == CHOOSE k \in 1..Len(reqs[r].snap) : reqs[r].snap[k].id = i
  IN reqs[r].snap[k].balance

\* two requests are done that read the same wallets with the same balances,
\* each for a positive amount that those balances cover
SameRead(r1, r2) ==
  /\ r1 # r2
  /\ reqs[r1].pc = "done" /\ reqs[r2].pc = "done"
  /\ reqs[r1].userId = reqs[r2].userId
  /\ reqs[r1].snap # <<>>
  /\ reqs[r1].snap = reqs[r2].snap
  /\ reqs[r1].amount > 0 /\ reqs[r1].amount <= TotalBalance(reqs[r1].snap)
  /\ reqs[r2].amount > 0 /\ reqs[r2].amount <= TotalBalance(reqs[r2].snap)

(* C6: two make_withdrawal requests that read the same balances, each for an
   amount those balances cover, both succeed and each records deductions
   summing to its amount, so that the two together may record more than the
   balances read; a wallet both have debited holds what one of them wrote
   from the balance it read, not that balance less both deductions. *)
C6_StaleReadsBothSucceed ==
  \A r1, r2 \in Slots :
    SameRead(r1, r2)
      => /\ reqs[r1].code = 201 /\ reqs[r2].code = 201
         /\ SumFun(Recorded(r1)) = reqs[r1].amount
         /\ SumFun(Recorded(r2)) = reqs[r2].amount
         /\ (\A r \in Slots \ {r1, r2} : reqs[r].pc = "idle")
              => \A i \in DOMAIN Recorded(r1) \cap DOMAIN Recorded(r2) :
                   wallets[i].balance \in {ReadBalance(r1, i) - Recorded(r1)[i],
                                           ReadBalance(r2, i) - Recorded(r2)[i]}

\* both requests succeeded and their recorded deductions exceed the total
\* balance that both read
C6_Witness ==
  \E r1, r2 \in Slots :
    /\ SameRead(r1, r2)
    /\ reqs[r1].code = 201 /\ reqs[r2].code = 201
    /\ SumFun(Recorded(r1)) + SumFun(Recorded(r2)) > TotalBalance(reqs[r1].snap)

\* u's completed loans all have a wallet in ws
AllSynced(ws, u) ==
  \A k \in 1..Len(CompletedLoans(u)) : FindWallet(ws, u, CompletedLoans(u)[k]) # 0

(* C7: a sync_wallet call that comes right after a sync_wallet call for the
   same user returns the same per-loan balances and the same total, inserts
   no wallet and changes no balance. *)
C7_SyncIdempotent ==
  [][\A u \in Callers :
       (resp.op = "sync_wallet" /\ resp.userId = u /\ get_wallet(u))
         => /\ resp'.out = resp.out
            /\ resp'.total = resp.total
            /\ wallets' = wallets]_vars

\* the same user was synced twice in a row and has two wallets
C7_Witness ==
  /\ resp.op = "sync_wallet"
  /\ resp.repeat
  /\ Len(resp.out) = 2

(* C8: sync_wallet leaves every wallet that exists as it is, whatever its
   balance, and leaves no loan of the user with two wallets. *)
C8_SyncKeepsExistingWallets ==
  [][\A u \in Callers :
       get_wallet(u)
         => /\ Len(wallets') >= Len(wallets)
            /\ \A i \in 1..Len(wallets) : wallets'[i] = wallets[i]
            /\ \A i, j \in 1..Len(wallets') :
                 (wallets'[i].userId = u /\ wallets'[j].userId = u
                    /\ wallets'[i].loanId = wallets'[j].loanId) => i = j]_vars

\* a sync has just reported a wallet that withdrawals have emptied
C8_Witness ==
  /\ resp.op = "sync_wallet"
  /\ \E k \in 1..Len(resp.out) : resp.out[k].balance = 0
  /\ \E i \in 1..Len(wallets) :
       /\ wallets[i].userId = resp.userId
       /\ wallets[i].balance = 0
       /\ loans[wallets[i].loanId].amount > 0

(* C9: after sync_wallet(u), every loan of u whose disbursement is completed
   has a wallet of (u, loan); a wallet the call inserted holds the loan's
   amount; the call returns one balance per completed loan, the one its
   wallet holds, and their sum; with no completed loan it returns the empty
   list and 0 and inserts nothing. *)
C9_SyncCreatesWallets ==
  [][\A u \in Callers :
       get_wallet(u)
         => LET ls == CompletedLoans(u)
            IN /\ AllSynced(wallets', u)
               /\ \A i \in (Len(wallets) + 1)..Len(wallets') :
                    /\ wallets'[i].userId = u
                    /\ loans[wallets'[i].loanId].disbursementStatus = "completed"
                    /\ wallets'[i].balance = loans[wallets'[i].loanId].amount
               /\ Len(resp'.out) = Len(ls)
               /\ \A k \in 1..Len(ls) :
                    /\ resp'.out[k].loanId = ls[k]
                    /\ resp'.out[k].balance
                         = wallets'[FindWallet(wallets', u, ls[k])].balance
               /\ resp'.total = SumSeq([k \in 1..Len(ls) |-> resp'.out[k].balance])
               /\ ls = <<>> => (resp'.out = <<>> /\ resp'.total = 0
                                 /\ wallets' = wallets)]_vars

\* a sync has inserted the wallet of a second loan beside one that
\* withdrawals have reduced
C9_Witness ==
  /\ resp.op = "sync_wallet"
  /\ Len(resp.out) = 2
  /\ resp.total < LoanAmount("L1") + LoanAmount("L2")
  /\ withdrawals # <<>>
  /\ \E i \in 1..Len(wallets) :
       /\ wallets[i].userId = resp.userId
       /\ \A w \in 1..Len(withdrawals) : i \notin DOMAIN withdrawals[w].walletDeductions

\* the balances of u's wallets, in the order make_withdrawal visits them
OrderedBalances(ws, u) ==
  [k \in 1..Len(WalletIdsOf(ws, u)) |-> ws[WalletIdsOf(ws, u)[k]].balance]

\* what the first k - 1 of those wallets hold together
HeldBefore(bs, k) == SumSeq(SubSeq(bs, 1, k - 1))

\* the first wallet, in that order, up to which the wallets hold n
StopsAt(bs, n) ==
  CHOOSE k \in 1..Len(bs) :
    /\ HeldBefore(bs, k) + bs[k] >= n
    /\ \A j \in 1..(k - 1) : HeldBefore(bs, j) + bs[j] < n

(* C10: a successful make_withdrawal for amount n takes the wallets of the
   user in enumeration order: every wallet before the first one up to which
   the wallets hold n is debited to 0 and recorded with what it held, that
   one is debited by, and recorded with, what then remains of n, and no
   later wallet, and no wallet of another user, is touched or recorded; with
   wallets of 5 and 3 a withdrawal of 7 records 5 and 2 and leaves 0 and 1,
   and a reject that comes next restores 5 and 3. *)
C10_GreedyInOrder ==
  [][\A u \in Callers, n \in Amounts :
       Created(u, n)
         => LET ids == WalletIdsOf(wallets, u)
                bs == OrderedBalances(wallets, u)
                stop == StopsAt(bs, n)
                d == withdrawals'[resp'.wid].walletDeductions
            IN /\ DOMAIN d = {ids[k] : k \in 1..stop}
               /\ \A k \in 1..(stop - 1) :
                    d[ids[k]] = bs[k] /\ wallets'[ids[k]].balance = 0
               /\ d[ids[stop]] = n - HeldBefore(bs, stop)
               /\ wallets'[ids[stop]].balance = bs[stop] - (n - HeldBefore(bs, stop))
               /\ \A i \in 1..Len(wallets) :
                    i \notin DOMAIN d => wallets'[i] = wallets[i]
               /\ (bs = <<5, 3>> /\ n = 7)
                    => /\ d = (ids[1] :> 5) @@ (ids[2] :> 2)
                       /\ OrderedBalances(wallets', u) = <<0, 1>>]_vars
  /\ [][\A u \in Callers :
          (/\ resp.op = "make_withdrawal" /\ resp.code = 201 /\ resp.userId = u
           /\ withdrawals[resp.wid].amount = 7
           /\ [k \in 1..Len(WalletIdsOf(wallets, u)) |->
                 resp.pre[WalletIdsOf(wallets, u)[k]]] = <<5, 3>>
           /\ OrderedBalances(wallets, u) = <<0, 1>>
           /\ admin_reject_withdrawal(resp.wid))
            => OrderedBalances(wallets', u) = <<5, 3>>]_vars

\* wallets of 5 and 3, a withdrawal of 7 that recorded 5 and 2 and left 0 and
\* 1, and the reject that came next
C10_Witness ==
  /\ resp.op = "admin_reject_withdrawal"
  /\ resp.pre # <<>>
  /\ withdrawals[resp.wid].amount = 7
  /\ LET ids == WalletIdsOf(wallets, resp.userId)
     IN /\ Len(ids) = 2
        /\ resp.pre[ids[1]] = 5 /\ resp.pre[ids[2]] = 3
        /\ withdrawals[resp.wid].walletDeductions = (ids[1] :> 5) @@ (ids[2] :> 2)
        /\ OrderedBalances(wallets, resp.userId) = <<5, 3>>

\* what the stored withdrawals record as taken from wallet i
RecordedFor(i) ==
  SumSeq([w \in 1..Len(withdrawals) |->
            IF i \in DOMAIN withdrawals[w].walletDeductions
            THEN withdrawals[w].walletDeductions[i] ELSE 0])

\* what wallet i holds less than the amount it was created with
DebitedFrom(i) == loans[wallets[i].loanId].amount - wallets[i].balance

\* no request stands between two of its writes: each has answered
NoneInFlight == \A r \in Slots : reqs[r].pc \in {"idle", "done"}

(* C11: once every make_withdrawal request has answered, also one that
   stopped between two of its writes, what a wallet has been debited is
   recorded in the walletDeductions of stored withdrawals: no wallet holds
   less than its recorded deductions account for. *)
C11_DebitsRecorded ==
  NoneInFlight
    => \A i \in 1..Len(wallets) : DebitedFrom(i) <= RecordedFor(i)

\* what withdrawal w records for wallet i, 0 when it records nothing
DeductionOf(w, i) ==
  IF i \in DOMAIN withdrawals[w].walletDeductions
  THEN withdrawals[w].walletDeductions[i] ELSE 0

(* C12: a reject of a pending withdrawal W adds to every wallet exactly what
   W records for it, whatever other withdrawals have done to the wallet since
   W was created: each balance after the reject is the balance just before
   it plus W's recorded deduction, and W becomes "rejected". *)
C12_RejectCreditsRecorded ==
  [][resp'.op = "admin_reject_withdrawal"
       => \A w \in 1..Len(withdrawals) :
            (withdrawals[w].status = "pending" /\ admin_reject_withdrawal(w))
              => /\ \A i \in 1..Len(wallets) :
                      wallets'[i].balance = wallets[i].balance + DeductionOf(w, i)
                 /\ Len(wallets') = Len(wallets)
                 /\ withdrawals'[w].status = "rejected"]_vars

\* the first withdrawal was rejected after a second one, still pending, had
\* taken funds from a wallet the first one took funds from, and that wallet
\* holds its loan's amount less what the second one records
C12_Witness ==
  /\ resp.op = "admin_reject_withdrawal"
  /\ resp.code = 200
  /\ resp.wid = 1
  /\ Len(withdrawals) = 2
  /\ withdrawals[1].status = "rejected"
  /\ withdrawals[2].status = "pending"
  /\ \E i \in 1..Len(wallets) :
       /\ DeductionOf(1, i) > 0
       /\ DeductionOf(2, i) > 0
       /\ wallets[i].balance = loans[wallets[i].loanId].amount - DeductionOf(2, i)

\* the verified repayments of loan l, summed
VerifiedSum(l) ==
  SumSeq([k \in 1..Len(repayments) |->
            IF repayments[k].loanId = l /\ repayments[k].status = "verified"
            THEN repayments[k].amount ELSE 0])

\* the time elapsed is after the due date
Overdue(delta) == ~(delta.days < 0 \/ (delta.days = 0 /\ ~delta.part))

\* floor(whole days overdue / 30) + 1
LateMonths(delta) == (delta.days \div 30) + 1

\* a hundred times principal + 10% of principal + 5% of principal per late
\* month
Due100(principal, delta) ==
  110 * principal + (IF Overdue(delta) THEN 5 * principal * LateMonths(delta) ELSE 0)

(* C13: an approve of a pending repayment of a loan verifies it and then
   marks the loan "repaid" exactly when the verified repayments of that loan,
   the one just verified among them and no pending, rejected or other loan's
   repayment, sum to at least principal + 10% + late fee; otherwise the loan
   is left as it is.  With principal 1000 and the due date passed by 40 days
   the loan is closed from 1200 on and not by 1199. *)
C13_RepaidWhenDue ==
  [][(resp'.op = "approve_repayment" /\ resp'.code = 200)
       => \A rp \in 1..Len(repayments), delta \in Elapsed :
            (/\ repayments[rp].status = "pending_verification"
             /\ repayments[rp].loanId \in DOMAIN loans
             /\ approve_repayment(rp, delta))
              => LET l == repayments[rp].loanId
                     paid == VerifiedSum(l) + repayments[rp].amount
                 IN /\ repayments'[rp].status = "verified"
                    /\ 100 * paid >= Due100(loans[l].amount, delta)
                         => loans' = [loans EXCEPT ![l].status = "repaid"]
                    /\ 100 * paid < Due100(loans[l].amount, delta)
                         => loans' = loans
                    /\ (loans[l].amount = 1000 /\ delta = [days |-> 40, part |-> FALSE])
                         => /\ paid >= 1200 => loans'[l].status = "repaid"
                            /\ paid <= 1199 => loans'[l].status = loans[l].status]_vars

\* the only verified repayment of loan L1, of 1200, was approved 40 days after
\* the due date and closed the loan, beside a pending repayment of 1199
C13_Witness ==
  /\ resp.op = "approve_repayment"
  /\ resp.code = 200
  /\ resp.elapsed = [days |-> 40, part |-> FALSE]
  /\ Len(repayments) = 2
  /\ repayments[resp.wid] =
       [loanId |-> "L1", amount |-> 1200, status |-> "verified", rejectionReason |-> ""]
  /\ \E k \in 1..2 :
       /\ k # resp.wid
       /\ repayments[k].loanId = "L1"
       /\ repayments[k].amount = 1199
       /\ repayments[k].status = "pending_verification"
  /\ loans["L1"].status = "repaid"

(* C14: the late fee that an approve computes (in hundredths) is 0 when the
   current time is not after the due date and otherwise 5% of the principal
   for each late month, the late months being floor(whole days overdue / 30)
   + 1: a part of a day and 29 days and a part are 1 month, 30 days, 30 days
   and a part and 40 days are 2 months. *)
C14_LateFee ==
  (resp.op = "approve_repayment" /\ resp.code = 200)
    => \A l \in DOMAIN loans :
         LET p == loans[l].amount
             fee(delta) == late_fee(p, delta)
         IN /\ late_fee(p, resp.elapsed)
                 = (IF Overdue(resp.elapsed)
                    THEN 5 * p * LateMonths(resp.elapsed) ELSE 0)
            /\ ~Overdue(resp.elapsed) => late_fee(p, resp.elapsed) = 0
            /\ fee([days |-> -1, part |-> TRUE]) = 0
            /\ fee([days |-> 0, part |-> FALSE]) = 0
            /\ fee([days |-> 0, part |-> TRUE]) = 5 * p
            /\ fee([days |-> 29, part |-> TRUE]) = 5 * p
            /\ fee([days |-> 30, part |-> FALSE]) = 10 * p
            /\ fee([days |-> 30, part |-> TRUE]) = 10 * p
            /\ fee([days |-> 40, part |-> FALSE]) = 10 * p

\* a repayment of 1199, the only verified one of loan L1 (principal 1000), was
\* approved 30 days and a part of a day after the due date and did not close
\* the loan: two late months were charged
C14_Witness ==
  /\ resp.op = "approve_repayment"
  /\ resp.code = 200
  /\ resp.elapsed = [days |-> 30, part |-> TRUE]
  /\ repayments[resp.wid].loanId = "L1"
  /\ repayments[resp.wid].amount = 1199
  /\ VerifiedSum("L1") = 1199
  /\ loans["L1"].status = "disbursed"

(* C15: an approve or a reject of a repayment that is no longer
   "pending_verification" is answered with an error and changes neither the
   repayment (status, amount, reason) nor any loan. *)
C15_StatusSetOnce ==
  [][resp'.op \in {"approve_repayment", "reject_repayment"}
       => \A rp \in 1..Len(repayments) :
            (/\ repayments[rp].status \in {"verified", "rejected"}
             /\ \/ \E delta \in Elapsed : approve_repayment(rp, delta)
                \/ \E body \in ReasonInputs : reject_repayment(rp, body))
              => /\ resp'.code = 400
                 /\ repayments' = repayments
                 /\ loans' = loans]_vars

\* an approve of a rejected repayment of 1200 for loan L1 was refused and the
\* loan is not repaid
C15_Witness ==
  /\ resp.op = "approve_repayment"
  /\ resp.code = 400
  /\ resp.error = "not_pending"
  /\ repayments[resp.wid].status = "rejected"
  /\ repayments[resp.wid].loanId = "L1"
  /\ repayments[resp.wid].amount = 1200
  /\ loans["L1"].status = "disbursed"

(* C16: a reject of a pending repayment sets its status to "rejected" and
   stores the reason given (or "No reason provided"), changes nothing else of
   it and no other repayment, and leaves every loan, every wallet and every
   user balance as it is. *)
C16_RejectRepayment ==
  [][resp'.op = "reject_repayment"
       => \A rp \in 1..Len(repayments), body \in ReasonInputs :
            (repayments[rp].status = "pending_verification"
               /\ reject_repayment(rp, body))
              => /\ resp'.code = 200
                 /\ repayments' =
                      [repayments EXCEPT
                         ![rp].status = "rejected",
                         ![rp].rejectionReason =
                            IF body = "missing" THEN "No reason provided" ELSE body]
                 /\ loans' = loans
                 /\ wallets' = wallets
                 /\ userBalance' = userBalance]_vars

\* a repayment of 1200 for loan L1 was rejected with a reason and the loan is
\* not repaid
C16_Witness ==
  /\ resp.op = "reject_repayment"
  /\ resp.code = 200
  /\ repayments[resp.wid].status = "rejected"
  /\ repayments[resp.wid].rejectionReason = "no proof"
  /\ repayments[resp.wid].amount = 1200
  /\ repayments[resp.wid].loanId = "L1"
  /\ loans["L1"].status = "disbursed"

(* C17: admin_approve_withdrawal on a withdrawal that exists changes the
   withdrawal's status to "approved" and nothing else: its amount and
   walletDeductions, the other withdrawals, every wallet balance and every
   user balance stay as they are. *)
C17_ApproveOnlyFlipsStatus ==
  [][resp'.op = "admin_approve_withdrawal"
       => \A w \in 1..Len(withdrawals) :
            admin_approve_withdrawal(w)
              => /\ withdrawals' = [withdrawals EXCEPT ![w].status = "approved"]
                 /\ wallets' = wallets
                 /\ userBalance' = userBalance
                 /\ loans' = loans]_vars

\* a withdrawal that took funds from two wallets was approved: the wallets
\* are still debited and the deductions still recorded
C17_Witness ==
  /\ resp.op = "admin_approve_withdrawal"
  /\ resp.code = 200
  /\ withdrawals[resp.wid].status = "approved"
  /\ LET d == withdrawals[resp.wid].walletDeductions
     IN /\ Cardinality({i \in DOMAIN d : d[i] > 0}) = 2
        /\ \A i \in DOMAIN d :
             wallets[i].balance = loans[wallets[i].loanId].amount - d[i]

\* the amount of a request body is missing, is no number or is not a
\* positive number
BadAmount(a) ==
  \/ a.kind \in {"missing", "text", "nan"}
  \/ (a.kind = "num" /\ a.val <= 0)

(* C18: a withdrawal request whose amount is missing, is no number or is not
   a positive number, and a make_withdrawal request of a user who has no
   wallet, is answered with an error, changes no wallet and creates no
   withdrawal document. *)
C18_InvalidRejected ==
  [][resp'.op \in {"make_withdrawal", "create_withdrawal"}
       => \A u \in Callers, a \in AmountInputs, svc \in ServiceInputs :
            (\/ /\ BadAmount(a) \/ WalletIdsOf(wallets, u) = <<>>
                /\ resp'.op = "make_withdrawal"
                /\ make_withdrawal(u, a, svc)
             \/ /\ BadAmount(a)
                /\ resp'.op = "create_withdrawal"
                /\ create_withdrawal(u, a, svc))
              => /\ resp'.code >= 400
                 /\ wallets' = wallets
                 /\ withdrawals' = withdrawals]_vars

(* C19: a withdrawal request that names a service other than MonCash and
   NatCash is answered with an error, debits no wallet and creates no
   withdrawal document, on both creation routes. *)
C19_UnsupportedServiceRejected ==
  [][resp'.op \in {"make_withdrawal", "create_withdrawal"}
       => \A u \in Callers, a \in AmountInputs :
            (\/ resp'.op = "make_withdrawal" /\ make_withdrawal(u, a, "PayPal")
             \/ resp'.op = "create_withdrawal" /\ create_withdrawal(u, a, "PayPal"))
              => /\ resp'.code >= 400
                 /\ wallets' = wallets
                 /\ withdrawals' = withdrawals]_vars

(* C20: after any sequence of sync, withdrawal creation, approval and reject
   requests every wallet balance is a number that is at least 0, and so is
   the sum of the balances of every user. *)
C20_BalancesNotNegative ==
  /\ \A i \in 1..Len(wallets) : Ge(wallets[i].balance, 0)
  /\ \A u \in Users : Ge(Total(u), 0)

\* a withdrawal of 7 took 5 and 2 from wallets of 5 and 3, and a withdrawal
\* whose amount is NaN then took the 1 that was left
C20_Witness ==
  /\ Len(withdrawals) = 2
  /\ withdrawals[1].amount = 7
  /\ withdrawals[2].amount = NaN
  /\ LET ids == WalletIdsOf(wallets, "u1")
     IN /\ Len(ids) = 2
        /\ SumFun(withdrawals[1].walletDeductions) = 7
        /\ SumFun(withdrawals[2].walletDeductions) = 1
        /\ \A k \in 1..2 : wallets[ids[k]].balance = 0

\* the steps of a loan's status the life cycle allows
LoanSteps ==
  {<<"pending", "approved">>, <<"approved", "disbursed">>,
   <<"disbursed", "repaid">>, <<"disbursed", "overdue">>,
   <<"overdue", "repaid">>}

(* C21: a loan that apply_for_loan creates starts in "pending", a loan's
   status changes only along pending -> approved -> disbursed ->
   repaid/overdue, and approve_repayment turns a loan to "repaid" only when
   it was "disbursed" or "overdue". *)
C21_LoanLifecycle ==
  [][\A l \in DOMAIN loans' :
       /\ l \notin DOMAIN loans => loans'[l].status = "pending"
       /\ (l \in DOMAIN loans /\ loans'[l].status # loans[l].status)
            => /\ <<loans[l].status, loans'[l].status>> \in LoanSteps
               /\ resp'.op = "approve_repayment"
                    => loans[l].status \in {"disbursed", "overdue"}]_vars

\* no loan, repayment or withdrawal of user id is stored
NothingOwnedBy(id) ==
  /\ \A l \in DOMAIN loans : loans[l].userId # id
  /\ \A k \in 1..Len(repayments) : repayments[k].userId # id
  /\ \A k \in 1..Len(withdrawals) : withdrawals[k].userId # id

(* C22: after a user deletion that answered with success, by any of the
   entry points that delete a user, the user has no document and no loan,
   repayment or withdrawal owned by that user remains. *)
C22_DeleteCascades ==
  (resp.op \in {"delete_user", "dashboard_delete_user", "kredinou_delete_user"}
     /\ resp.code = 200)
    => /\ resp.userId \notin DOMAIN userBalance
       /\ NothingOwnedBy(resp.userId)

(* C23: in the account-balance variant, the approval of a pending withdrawal
   of amount A of a user whose balance is b answers 200, sets the user's
   balance to b - A when that is positive and to 0 otherwise, which is never
   negative, leaves the other users' balances alone and sets the
   withdrawal's status to "approved". *)
C23_ApproveDebitsClamped ==
  [][resp'.op \in {"approve_withdrawal", "update_withdrawal"}
       => \A w \in 1..Len(withdrawals) :
            (/\ withdrawals[w].status = "pending"
             /\ \/ resp'.op = "approve_withdrawal" /\ approve_withdrawal(w)
                \/ resp'.op = "update_withdrawal" /\ update_withdrawal(w, "approved"))
              => LET u == withdrawals[w].userId
                     b == userBalance[u]
                     A == withdrawals[w].amount
                 IN /\ resp'.code = 200
                    /\ userBalance'[u] = (IF b - A > 0 THEN b - A ELSE 0)
                    /\ userBalance'[u] >= 0
                    /\ \A v \in Users \ {u} : userBalance'[v] = userBalance[v]
                    /\ withdrawals'[w].status = "approved"
                    /\ withdrawals'[w].amount = A]_vars

\* two withdrawals of 5 each were approved against a balance of 6: the first
\* left 1, the second was clamped at 0
C23_Witness ==
  /\ resp.op \in {"approve_withdrawal", "update_withdrawal"}
  /\ resp.code = 200
  /\ Len(withdrawals) = 2
  /\ \A w \in 1..2 : withdrawals[w].status = "approved" /\ withdrawals[w].amount = 5
  /\ userBalance["u1"] = 0

\* the status changes a withdrawal may make
WithdrawalSteps == {<<"pending", "approved">>, <<"pending", "rejected">>}

(* C24: every withdrawal's status is "pending", "approved" or "rejected"
   at all times, a new withdrawal starts in "pending", and a status changes
   only from "pending" to "approved" or from "pending" to "rejected",
   whichever admin route is used, the PATCH update with the status of its
   body included. *)
C24_WithdrawalStatus ==
  [][/\ Len(withdrawals') >= Len(withdrawals)
     /\ \A w \in 1..Len(withdrawals') :
          /\ withdrawals'[w].status \in {"pending", "approved", "rejected"}
          /\ w > Len(withdrawals) => withdrawals'[w].status = "pending"
          /\ (w <= Len(withdrawals)
                /\ withdrawals'[w].status # withdrawals[w].status)
               => <<withdrawals[w].status, withdrawals'[w].status>>
                     \in WithdrawalSteps]_vars

\* the sum of the loan amounts credited to the wallets of user u when they
\* were created
Credited(u) ==
  SumSeq([i \in 1..Len(wallets) |->
            IF wallets[i].userId = u THEN loans[wallets[i].loanId].amount ELSE 0])

\* the sum of the amounts of the withdrawals of user u that are pending or
\* approved
Outstanding(u) ==
  SumSeq([w \in 1..Len(withdrawals) |->
            IF withdrawals[w].userId = u
                 /\ withdrawals[w].status \in {"pending", "approved"}
            THEN withdrawals[w].amount ELSE 0])

(* C25: when requests are served one after the other, for every user the sum
   of the wallet balances plus the sum of the amounts of the user's pending
   and approved withdrawals equals the sum of the loan amounts credited when
   the wallets were created, after any sequence of sync, make_withdrawal,
   admin approve and admin reject requests. *)
C25_FundsConserved ==
  \A u \in Users : Add(Total(u), Outstanding(u)) = Credited(u)

(* C26: in every reachable state there is at most one wallet for each pair
   of a user and a loan, also when two sync_wallet calls of the same user
   interleave, so that a completed loan's amount is credited to the wallets
   at most once. *)
C26_OneWalletPerLoan ==
  \A i, j \in 1..Len(wallets) :
    (wallets[i].userId = wallets[j].userId /\ wallets[i].loanId = wallets[j].loanId)
      => i = j

(* C27: in the variant where create_withdrawal checks a request against the
   loans, for every user the sum of the amounts of the user's pending and
   approved withdrawals is at most the user's available balance, the sum of
   the amounts of the user's loans with status "disbursed", after any
   sequence of create_withdrawal requests. *)
C27_RequestsWithinAvailable ==
  \A u \in Users : Le(Outstanding(u), available_balance(u))

\* the sum of the amounts of the approved withdrawals of user u
Approved(u) ==
  SumSeq([w \in 1..Len(withdrawals) |->
            IF withdrawals[w].userId = u /\ withdrawals[w].status = "approved"
            THEN withdrawals[w].amount ELSE 0])

\* the balance user u had before any withdrawal was reviewed
OpeningBalance(u) == IF u = "u1" THEN InitBalance ELSE 0

(* C28: when approve and reject requests for the same pending withdrawal
   interleave in the account-balance variant, at most one of them takes
   effect: once all requests have answered, a user's balance has lost no
   more than the amounts of the user's approved withdrawals, each counted
   once, so that a withdrawal that ends "rejected" has had nothing debited
   and one that ends "approved" was debited at most once. *)
C28_OneReviewTakesEffect ==
  NoneInFlight =>
    \A u \in Users : userBalance[u] + Approved(u) >= OpeningBalance(u)

\* the balance wallet i held when only the withdrawal of 7 had been served
StartBalance(i) == loans[wallets[i].loanId].amount - DeductionOf(1, i)

(* C29: when a reject of withdrawal W1 and a make_withdrawal that creates W2
   are served at the same time on the same wallets, no update is lost: once
   both have answered, every wallet holds what it held before both started
   plus what W1 records for it minus what W2 records for it. *)
C29_NoLostUpdate ==
  \A r1, r2 \in Slots :
    (/\ reqs[r1].pc = "done" /\ reqs[r1].code = 200 /\ reqs[r1].wid = 1
     /\ reqs[r2].pc = "done" /\ reqs[r2].code = 201)
      => \A i \in 1..Len(wallets) :
           wallets[i].balance =
             StartBalance(i) + DeductionOf(1, i) - DeductionOf(reqs[r2].wid, i)

\* the requests of slots r1 and r2 have each approved a repayment of its own
\* of the same loan, served at the same time
ApprovedTogether(r1, r2) ==
  /\ r1 # r2
  /\ reqs[r1].pc = "done" /\ reqs[r1].code = 200
  /\ reqs[r2].pc = "done" /\ reqs[r2].code = 200
  /\ reqs[r1].wid # reqs[r2].wid
  /\ reqs[r1].userId = reqs[r2].userId
  /\ reqs[r1].userId \in DOMAIN loans
  /\ reqs[r1].snap = reqs[r2].snap

(* C30: when two pending repayments of the same loan are approved by
   interleaved approve_repayment requests served at the same time, and the
   two together reach the total due, then once both requests have answered
   the loan's status is "repaid". *)
C30_ClosureNotMissed ==
  \A r1, r2 \in Slots :
    (/\ ApprovedTogether(r1, r2)
     /\ (repayments[reqs[r1].wid].amount + repayments[reqs[r2].wid].amount) * 100
          >= Due100(loans[reqs[r1].userId].amount, reqs[r1].snap[1]))
      => loans[reqs[r1].userId].status = "repaid"

\* repayments of 1 and 1099 were approved before the due date by two requests
\* that both marked their repayment verified before either summed: each
\* summed 1100, and the loan is repaid
C30_Witness ==
  /\ ApprovedTogether(1, 2)
  /\ {repayments[reqs[1].wid].amount, repayments[reqs[2].wid].amount} = {1, 1099}
  /\ reqs[1].snap[1].days = -1
  /\ reqs[1].amount = 1100
  /\ reqs[2].amount = 1100
  /\ loans["L1"].status = "repaid"

====
